---- MODULE Spec2Model ----
(***************************************************************************)
(* Model of sample/fhir-producer/producer.py: the start-up connection      *)
(* retry (create_producer), the sample loader (load_fhir_samples), the     *)
(* built-in fallback (generate_sample_fhir_resources) and the send loop    *)
(* with its cleanup block (main).                                          *)
(*                                                                         *)
(* The process is single threaded; pc is the statement main has reached.   *)
(* The environment decides the outcome of every connection attempt, the    *)
(* content of the samples directory, the outcome of every send, and the    *)
(* moment of the operator's interrupt (KeyboardInterrupt).                 *)
(*                                                                         *)
(* Text is a sequence of one-character strings over the alphabet           *)
(*   " " (whitespace), "1" "2" (digits), "{" (an opening brace);           *)
(* over this alphabet a text is valid JSON exactly when it is a number.    *)
(***************************************************************************)
EXTENDS Integers, Sequences, FiniteSets, TLC

VARIABLES
    pc,             \* statement reached by main
    send_interval,  \* main: int(SEND_INTERVAL_SECONDS)
    attempt,        \* create_producer: loop variable of range(max_retries)
    producer,       \* "none" | "open" | "closed"
    attempts,       \* history: KafkaProducer(...) constructions started
    failures,       \* history: constructions that raised
    retry_delays,   \* history: durations of the completed time.sleep(retry_delay)
    raised_attempt, \* history: 1-based attempt whose failure create_producer re-raised
    dir_exists,     \* load_fhir_samples: samples_dir.exists()
    files,          \* load_fhir_samples: the listing samples_dir.glob('*.json')
    file_idx,       \* load_fhir_samples: next file of the listing (1-based)
    samples,        \* load_fhir_samples: the list under construction / returned
    fhir_samples,   \* main: the effective sample set
    sample_index,   \* main: the cursor
    fhir_resource,  \* main: the payload selected for the current iteration
    sent,           \* history: payloads handed to producer.send, in order
    acked,          \* history: sends the broker acknowledged
    failed,         \* history: sends that raised (KafkaError or other)
    loop_sleeps,    \* history: durations of the completed time.sleep(send_interval)
    log,            \* number of lines logged, per logging statement
    close_calls,    \* history: calls of producer.close()
    exc,            \* exception pending in / propagated out of main
    interrupted_at  \* history: pc at which the KeyboardInterrupt was delivered

vars == << pc, send_interval, attempt, producer, attempts, failures,
           retry_delays, raised_attempt, dir_exists, files, file_idx, samples,
           fhir_samples, sample_index, fhir_resource, sent, acked, failed,
           loop_sleeps, log, close_calls, exc, interrupted_at >>

(***************************************************************************)
(* Bounds of the model and constants of the program.                       *)
(***************************************************************************)
MaxFiles == 2          \* files listed in the samples directory
MaxSends == 4          \* iterations of the send loop that are explored

max_retries == 10
retry_delay == 5
DefaultSendInterval == 10

SendIntervals == {-1, 0, DefaultSendInterval}

Min(a, b) == IF a < b THEN a ELSE b

(***************************************************************************)
(* Text: str.strip and json.loads.                                         *)
(***************************************************************************)
IsSpace(c) == c = " "
IsDigit(c) == c \in {"1", "2"}

RECURSIVE LStrip(_)
LStrip(s) ==
    IF s # << >> /\ IsSpace(Head(s)) THEN LStrip(Tail(s)) ELSE s

RECURSIVE RStrip(_)
RStrip(s) ==
    IF s # << >> /\ IsSpace(s[Len(s)])
    THEN RStrip(SubSeq(s, 1, Len(s) - 1))
    ELSE s

\* str.strip(): whitespace removed at both ends
Strip(s) == RStrip(LStrip(s))

RECURSIVE SkipDigits(_)
SkipDigits(s) ==
    IF s # << >> /\ IsDigit(Head(s)) THEN SkipDigits(Tail(s)) ELSE s

\* json.loads(s) returns (TRUE) or raises JSONDecodeError (FALSE): skip the
\* leading whitespace, scan one value (here a number), skip the trailing
\* whitespace, and reject any text left over ("Extra data").
JsonLoads(s) ==
    LET a == LStrip(s)
        b == SkipDigits(a)
    IN  /\ Len(b) < Len(a)
        /\ LStrip(b) = << >>

(***************************************************************************)
(* The samples directory.  A file is readable with some content, or        *)
(* open()/read() raises on it.                                             *)
(***************************************************************************)
Contents ==
    { << >>,                    \* empty file
      << " " >>,                \* whitespace only
      << "1" >>,                \* valid
      << " ", "2", " " >>,      \* valid, surrounded by whitespace
      << "{" >>,                \* malformed
      << "1", " ", "2" >> }     \* malformed: extra data

FileStates ==
    [readable : {TRUE}, text : Contents] \cup [readable : {FALSE}, text : {<< >>}]

Listings == UNION { [1..n -> FileStates] : n \in 0..MaxFiles }

(***************************************************************************)
(* generate_sample_fhir_resources and json.dumps.                          *)
(***************************************************************************)
\* generate_sample_fhir_resources with the two resources in the other order
generate_sample_fhir_resources_swapped ==
    << [resourceType |-> "Observation", id |-> "example-observation-1"],
       [resourceType |-> "Patient", id |-> "example-patient-1"] >>

\* lines 65-122 (of each resource, the resourceType and the id)
generate_sample_fhir_resources ==
    << [resourceType |-> "Patient", id |-> "example-patient-1"],
       [resourceType |-> "Observation", id |-> "example-observation-1"] >>

\* json.dumps(sample): the text of an object, opening with its resourceType
JsonDumps(sample) == << "{", sample.resourceType, sample.id, "}" >>

(***************************************************************************)
(* Logging.                                                                *)
(***************************************************************************)
LogLines ==
    { "connected", "attempt_failed", "dir_missing", "loaded", "load_error",
      "using_generated", "loaded_count", "no_samples", "sent", "send_failed",
      "send_unexpected", "stopping", "stopped" }

Logged(line) == [log EXCEPT ![line] = @ + 1]

(***************************************************************************)
(* Initial state: main has read its configuration (lines 125-140).         *)
(***************************************************************************)
Init ==
    /\ pc = "connect"
    /\ send_interval \in SendIntervals
    /\ attempt = 0
    /\ producer = "none"
    /\ attempts = 0
    /\ failures = 0
    /\ retry_delays = << >>
    /\ raised_attempt = 0
    /\ dir_exists = FALSE
    /\ files = << >>
    /\ file_idx = 1
    /\ samples = << >>
    /\ fhir_samples = << >>
    /\ sample_index = 0
    /\ fhir_resource = << >>
    /\ sent = << >>
    /\ acked = 0
    /\ failed = 0
    /\ loop_sleeps = << >>
    /\ log = [l \in LogLines |-> 0]
    /\ close_calls = 0
    /\ exc = "none"
    /\ interrupted_at = "none"

connectVars == << attempt, producer, attempts, failures, retry_delays, raised_attempt >>
loadVars == << dir_exists, files, file_idx, samples >>
loopVars == << fhir_samples, sample_index, fhir_resource, sent, acked, failed, loop_sleeps >>

(***************************************************************************)
(* create_producer                                                         *)
(***************************************************************************)
\* lines 23-34: KafkaProducer(...) succeeds; log and return the producer
ConnectSuccess ==
    /\ pc = "connect"
    /\ attempts' = attempts + 1
    /\ producer' = "open"
    /\ log' = Logged("connected")
    /\ pc' = "load"
    /\ UNCHANGED << send_interval, attempt, failures, retry_delays, raised_attempt,
                    loadVars, loopVars, close_calls, exc, interrupted_at >>

\* ConnectFail without the raise of line 40: after the last failure the loop
\* ends and create_producer returns None to main, which goes on
ConnectFail_ReturnsNone ==
    /\ pc = "connect"
    /\ attempts' = attempts + 1
    /\ failures' = failures + 1
    /\ log' = Logged("attempt_failed")
    /\ pc' = IF attempt < max_retries - 1 THEN "retry_wait" ELSE "load"
    /\ UNCHANGED << send_interval, attempt, producer, retry_delays, raised_attempt,
                    loadVars, loopVars, close_calls, exc, interrupted_at >>

\* ConnectFail with the retry budget off by one: re-raises at the 9th failure
ConnectFail_RaiseEarly ==
    /\ pc = "connect"
    /\ attempts' = attempts + 1
    /\ failures' = failures + 1
    /\ log' = Logged("attempt_failed")
    /\ IF attempt < max_retries - 2
       THEN /\ pc' = "retry_wait"
            /\ UNCHANGED << raised_attempt, exc >>
       ELSE /\ raised_attempt' = attempt + 1
            /\ exc' = "ConnectionError"
            /\ pc' = "done"
    /\ UNCHANGED << send_interval, attempt, producer, retry_delays,
                    loadVars, loopVars, close_calls, interrupted_at >>

\* lines 23-40: KafkaProducer(...) raises; log, then wait or re-raise
ConnectFail ==
    /\ pc = "connect"
    /\ attempts' = attempts + 1
    /\ failures' = failures + 1
    /\ log' = Logged("attempt_failed")
    /\ IF attempt < max_retries - 1
       THEN /\ pc' = "retry_wait"
            /\ UNCHANGED << raised_attempt, exc >>
       ELSE /\ raised_attempt' = attempt + 1
            /\ exc' = "ConnectionError"
            /\ pc' = "done"
    /\ UNCHANGED << send_interval, attempt, producer, retry_delays,
                    loadVars, loopVars, close_calls, interrupted_at >>

\* RetryWait with a delay that grows with the attempt number
RetryWait_Backoff ==
    /\ pc = "retry_wait"
    /\ retry_delays' = Append(retry_delays, retry_delay * (attempt + 1))
    /\ attempt' = attempt + 1
    /\ pc' = "connect"
    /\ UNCHANGED << send_interval, producer, attempts, failures, raised_attempt,
                    loadVars, loopVars, log, close_calls, exc, interrupted_at >>

\* line 38, then the next iteration of line 23
RetryWait ==
    /\ pc = "retry_wait"
    /\ retry_delays' = Append(retry_delays, retry_delay)
    /\ attempt' = attempt + 1
    /\ pc' = "connect"
    /\ UNCHANGED << send_interval, producer, attempts, failures, raised_attempt,
                    loadVars, loopVars, log, close_calls, exc, interrupted_at >>

(***************************************************************************)
(* load_fhir_samples                                                       *)
(***************************************************************************)
\* lines 44-49: the directory does not exist; warn and return the empty list
LoadMissingDir ==
    /\ pc = "load"
    /\ dir_exists' = FALSE
    /\ files' = << >>
    /\ file_idx' = 1
    /\ samples' = << >>
    /\ log' = Logged("dir_missing")
    /\ pc' = "load_return"
    /\ UNCHANGED << send_interval, connectVars, loopVars, close_calls, exc,
                    interrupted_at >>

\* lines 44-47: samples_dir.exists() raises.  Path.exists() answers False only
\* for ENOENT, ENOTDIR, EBADF and ELOOP and re-raises any other OSError of
\* stat (EACCES on a parent that cannot be searched, ENAMETOOLONG); line 47
\* is in no try block, so the error leaves load_fhir_samples and, line 145
\* being ahead of the try block of main, leaves main with the producer open
LoadStatError ==
    /\ pc = "load"
    /\ exc' = "OSError"
    /\ pc' = "done"
    /\ UNCHANGED << send_interval, connectVars, loadVars, loopVars, log,
                    close_calls, interrupted_at >>

\* lines 44-47, 51: the directory exists; glob('*.json') lists its files
LoadListDir ==
    /\ pc = "load"
    /\ \E d \in Listings :
          /\ files' = d
          /\ pc' = IF d = << >> THEN "load_return" ELSE "load_file"
    /\ dir_exists' = TRUE
    /\ file_idx' = 1
    /\ samples' = << >>
    /\ UNCHANGED << send_interval, connectVars, loopVars, log, close_calls, exc,
                    interrupted_at >>

\* lines 53-61, outcome of one file: "loaded", "skipped" (empty after strip)
\* or "error" (open/read raised, or json.loads raised)
FileOutcome(f) ==
    IF ~f.readable THEN "error"
    ELSE IF Strip(f.text) = << >> THEN "skipped"
    ELSE IF JsonLoads(Strip(f.text)) THEN "loaded"
    ELSE "error"

\* LoadFile with the try around the whole loop: an error ends the listing
LoadFile_AbortOnError ==
    /\ pc = "load_file"
    /\ file_idx <= Len(files)
    /\ LET f == files[file_idx]
           outcome == FileOutcome(f)
       IN  /\ samples' = IF outcome = "loaded"
                         THEN Append(samples, Strip(f.text))
                         ELSE samples
           /\ log' = IF outcome = "loaded" THEN Logged("loaded")
                     ELSE IF outcome = "error" THEN Logged("load_error")
                     ELSE log
           /\ pc' = IF file_idx = Len(files) \/ outcome = "error"
                    THEN "load_return"
                    ELSE "load_file"
    /\ file_idx' = file_idx + 1
    /\ UNCHANGED << send_interval, connectVars, dir_exists, files, loopVars,
                    close_calls, exc, interrupted_at >>

\* lines 51-61: one iteration of the for loop
LoadFile ==
    /\ pc = "load_file"
    /\ file_idx <= Len(files)
    /\ LET f == files[file_idx]
           outcome == FileOutcome(f)
       IN  /\ samples' = IF outcome = "loaded"
                         THEN Append(samples, Strip(f.text))
                         ELSE samples
           /\ log' = IF outcome = "loaded" THEN Logged("loaded")
                     ELSE IF outcome = "error" THEN Logged("load_error")
                     ELSE log
    /\ file_idx' = file_idx + 1
    /\ pc' = IF file_idx = Len(files) THEN "load_return" ELSE "load_file"
    /\ UNCHANGED << send_interval, connectVars, dir_exists, files, loopVars,
                    close_calls, exc, interrupted_at >>

\* lines 49 / 63 and main line 145: return samples; the listing is a local of
\* load_fhir_samples and is gone once it has returned
LoadReturn ==
    /\ pc = "load_return"
    /\ fhir_samples' = samples
    /\ files' = << >>
    /\ file_idx' = 1
    /\ pc' = "fallback"
    /\ UNCHANGED << send_interval, connectVars, dir_exists, samples, sample_index,
                    fhir_resource, sent, acked, failed, loop_sleeps, log,
                    close_calls, exc, interrupted_at >>

(***************************************************************************)
(* main                                                                    *)
(***************************************************************************)
\* lines 151: [json.dumps(sample) for sample in generated_samples]
GeneratedSamples ==
    [i \in 1..Len(generate_sample_fhir_resources) |->
        JsonDumps(generate_sample_fhir_resources[i])]

\* Fallback without the fallback: an empty result of the loader is kept
Fallback_KeepsEmpty ==
    /\ pc = "fallback"
    /\ UNCHANGED fhir_samples
    /\ log' = Logged("loaded_count")
    /\ sample_index' = 0
    /\ pc' = "loop"
    /\ UNCHANGED << send_interval, connectVars, loadVars, fhir_resource, sent,
                    acked, failed, loop_sleeps, close_calls, exc, interrupted_at >>

\* lines 148-156: fall back to the generated samples, enter the try block
Fallback ==
    /\ pc = "fallback"
    /\ IF fhir_samples = << >>
       THEN /\ fhir_samples' = GeneratedSamples
            /\ log' = [log EXCEPT !["using_generated"] = @ + 1,
                                  !["loaded_count"] = @ + 1]
       ELSE /\ UNCHANGED fhir_samples
            /\ log' = Logged("loaded_count")
    /\ sample_index' = 0
    /\ pc' = "loop"
    /\ UNCHANGED << send_interval, connectVars, loadVars, fhir_resource, sent,
                    acked, failed, loop_sleeps, close_calls, exc, interrupted_at >>

\* time.sleep(seconds) raises ValueError on a negative length
SleepRaises(seconds) == seconds < 0

\* SelectSample reading the cursor after its increment
SelectSample_AfterIncrement(smp, idx) == smp[((idx + 1) % Len(smp)) + 1]

\* line 164: fhir_samples[sample_index % len(fhir_samples)] (Python indexes from 0)
SelectSample(smp, idx) == smp[(idx % Len(smp)) + 1]

\* lines 157-165: the head of one iteration; MaxSends caps the exploration
LoopHead ==
    /\ pc = "loop"
    /\ sample_index < MaxSends
    /\ Len(loop_sleeps) < MaxSends
    /\ IF fhir_samples = << >>
       THEN /\ log' = Logged("no_samples")
            /\ IF SleepRaises(send_interval)
               THEN /\ exc' = "ValueError"
                    /\ pc' = "finally"
                    /\ UNCHANGED loop_sleeps
               ELSE /\ loop_sleeps' = Append(loop_sleeps, send_interval)
                    /\ pc' = "loop"
                    /\ UNCHANGED exc
            /\ UNCHANGED << fhir_resource, sample_index >>
       ELSE /\ fhir_resource' = SelectSample(fhir_samples, sample_index)
            /\ sample_index' = sample_index + 1
            /\ pc' = "send"
            /\ UNCHANGED << log, loop_sleeps, exc >>
    /\ UNCHANGED << send_interval, connectVars, loadVars, fhir_samples, sent,
                    acked, failed, close_calls, interrupted_at >>

\* lines 169-172: the broker acknowledges within the timeout
SendAck ==
    /\ pc = "send"
    /\ sent' = Append(sent, fhir_resource)
    /\ acked' = acked + 1
    /\ log' = Logged("sent")
    /\ pc' = "sleep"
    /\ UNCHANGED << send_interval, connectVars, loadVars, fhir_samples,
                    sample_index, fhir_resource, failed, loop_sleeps, close_calls,
                    exc, interrupted_at >>

\* SendKafkaError going straight to the next iteration, without the sleep
SendKafkaError_NoSleep ==
    /\ pc = "send"
    /\ sent' = Append(sent, fhir_resource)
    /\ failed' = failed + 1
    /\ log' = Logged("send_failed")
    /\ pc' = "loop"
    /\ UNCHANGED << send_interval, connectVars, loadVars, fhir_samples,
                    sample_index, fhir_resource, acked, loop_sleeps, close_calls,
                    exc, interrupted_at >>

\* lines 169-170, 174-175: send or future.get raises a KafkaError
\* (a broker error, or the 10 second acknowledgment timeout)
SendKafkaError ==
    /\ pc = "send"
    /\ sent' = Append(sent, fhir_resource)
    /\ failed' = failed + 1
    /\ log' = Logged("send_failed")
    /\ pc' = "sleep"
    /\ UNCHANGED << send_interval, connectVars, loadVars, fhir_samples,
                    sample_index, fhir_resource, acked, loop_sleeps, close_calls,
                    exc, interrupted_at >>

\* SendUnexpectedError without the handler of lines 176-177: the exception
\* leaves the loop unlogged
SendUnexpectedError_Propagates ==
    /\ pc = "send"
    /\ sent' = Append(sent, fhir_resource)
    /\ failed' = failed + 1
    /\ exc' = "Exception"
    /\ pc' = "finally"
    /\ UNCHANGED << send_interval, connectVars, loadVars, fhir_samples,
                    sample_index, fhir_resource, acked, loop_sleeps, log,
                    close_calls, interrupted_at >>

\* lines 169-170, 176-177: send or future.get raises another Exception
SendUnexpectedError ==
    /\ pc = "send"
    /\ sent' = Append(sent, fhir_resource)
    /\ failed' = failed + 1
    /\ log' = Logged("send_unexpected")
    /\ pc' = "sleep"
    /\ UNCHANGED << send_interval, connectVars, loadVars, fhir_samples,
                    sample_index, fhir_resource, acked, loop_sleeps, close_calls,
                    exc, interrupted_at >>

\* line 179: time.sleep(send_interval), outside the inner try; an exception
\* it raises is caught by no except clause and reaches the finally block
Sleep ==
    /\ pc = "sleep"
    /\ IF SleepRaises(send_interval)
       THEN /\ exc' = "ValueError"
            /\ pc' = "finally"
            /\ UNCHANGED loop_sleeps
       ELSE /\ loop_sleeps' = Append(loop_sleeps, send_interval)
            /\ pc' = "loop"
            /\ UNCHANGED exc
    /\ UNCHANGED << send_interval, connectVars, loadVars, fhir_samples,
                    sample_index, fhir_resource, sent, acked, failed, log,
                    close_calls, interrupted_at >>

\* the statements of the try block, lines 155-179
InTry == {"loop", "send", "sleep"}
\* the statements of main before the try block, lines 142-153
BeforeTry == {"connect", "retry_wait", "load", "load_file", "load_return", "fallback"}

\* Interrupt with line 35 catching BaseException: an interrupt delivered during
\* a connection attempt is logged as a failed attempt and retried
Interrupt_CaughtAsFailure ==
    /\ pc \in BeforeTry \cup InTry
    /\ interrupted_at' = pc
    /\ IF pc = "connect" /\ attempt < max_retries - 1
       THEN /\ attempts' = attempts + 1
            /\ failures' = failures + 1
            /\ log' = Logged("attempt_failed")
            /\ pc' = "retry_wait"
            /\ UNCHANGED exc
       ELSE /\ IF pc \in InTry
               THEN /\ pc' = "except_interrupt"
                    /\ UNCHANGED exc
               ELSE /\ exc' = "KeyboardInterrupt"
                    /\ pc' = "done"
            /\ UNCHANGED << attempts, failures, log >>
    /\ UNCHANGED << send_interval, attempt, producer, retry_delays, raised_attempt,
                    loadVars, loopVars, close_calls >>

\* The operator's interrupt: KeyboardInterrupt is raised at the statement that
\* is executing.  It is no Exception, so the handlers of lines 35, 60, 174 and
\* 176 do not catch it; line 181 catches it inside the try block only.
Interrupt ==
    /\ pc \in BeforeTry \cup InTry
    /\ interrupted_at' = pc
    /\ IF pc \in InTry
       THEN /\ pc' = "except_interrupt"
            /\ UNCHANGED exc
       ELSE /\ exc' = "KeyboardInterrupt"
            /\ pc' = "done"
    /\ UNCHANGED << send_interval, connectVars, loadVars, loopVars, log, close_calls >>

\* ExceptKeyboardInterrupt closing the producer itself, ahead of the finally block
ExceptKeyboardInterrupt_Closes ==
    /\ pc = "except_interrupt"
    /\ log' = Logged("stopping")
    /\ close_calls' = close_calls + 1
    /\ producer' = "closed"
    /\ pc' = "finally"
    /\ UNCHANGED << send_interval, attempt, attempts, failures, retry_delays,
                    raised_attempt, loadVars, loopVars, exc, interrupted_at >>

\* lines 181-182
ExceptKeyboardInterrupt ==
    /\ pc = "except_interrupt"
    /\ log' = Logged("stopping")
    /\ pc' = "finally"
    /\ UNCHANGED << send_interval, connectVars, loadVars, loopVars, close_calls,
                    exc, interrupted_at >>

\* lines 183-185: close the producer; a pending exception then leaves main
Finally ==
    /\ pc = "finally"
    /\ producer' = "closed"
    /\ close_calls' = close_calls + 1
    /\ log' = Logged("stopped")
    /\ pc' = "done"
    /\ UNCHANGED << send_interval, attempt, attempts, failures, retry_delays,
                    raised_attempt, loadVars, loopVars, exc, interrupted_at >>

\* exit status of the process once main has ended
ExitCode == IF exc = "none" THEN 0 ELSE 1

Next ==
    \/ ConnectSuccess
    \/ ConnectFail
    \/ RetryWait
    \/ LoadMissingDir
    \/ LoadStatError
    \/ LoadListDir
    \/ LoadFile
    \/ LoadReturn
    \/ Fallback
    \/ LoopHead
    \/ SendAck
    \/ SendKafkaError
    \/ SendUnexpectedError
    \/ Sleep
    \/ Interrupt
    \/ ExceptKeyboardInterrupt
    \/ Finally

Spec == Init /\ [][Next]_vars

(***************************************************************************)
(* Properties                                                              *)
(***************************************************************************)
\* main is inside, or has left, the try block of lines 155-185 (line 153
\* logs the sample count right before it)
EnteredTry == log["loaded_count"] > 0

\* C1: create_producer makes at most 10 attempts; when it returns a
\* connection after k attempts, the first k-1 failed and no attempt follows;
\* the failure is propagated exactly when 10 attempts have failed, it is the
\* failure of the 10th attempt, and no 11th attempt is made.
C1_TenAttempts ==
    /\ attempts <= 10
    /\ producer # "none" => /\ attempts = failures + 1
                            /\ log["connected"] = 1
                            /\ exc # "ConnectionError"
    /\ producer = "none" => attempts = failures
    /\ (exc = "ConnectionError") <=> (failures = 10)
    /\ exc = "ConnectionError" => /\ raised_attempt = 10
                                  /\ attempts = 10
                                  /\ pc = "done"
    /\ exc # "ConnectionError" => raised_attempt = 0

\* the 10th attempt succeeds after nine failures
C1_Witness ==
    /\ producer = "open"
    /\ failures = 9
    /\ attempts = 10

\* C2: every wait between connection attempts lasts 5 seconds whatever the
\* attempt number; there is one wait between two consecutive attempts, none
\* after a successful attempt and none after the 10th failure, so f failed
\* attempts are followed by min(f, 9) waits (the wait after the last failure
\* is still ahead while pc = "retry_wait", and is cut short by an interrupt).
C2_FixedDelay ==
    /\ \A i \in 1..Len(retry_delays) : retry_delays[i] = 5
    /\ Len(retry_delays) =
          IF pc = "retry_wait" \/ interrupted_at = "retry_wait"
          THEN failures - 1
          ELSE Min(failures, 9)
    /\ producer # "none" => Len(retry_delays) = attempts - 1
    /\ pc = "connect" => Len(retry_delays) = attempts

\* ten failed attempts, nine waits
C2_Witness ==
    /\ failures = 10
    /\ Len(retry_delays) = 9
    /\ pc = "done"

\* C3: the i-th send attempt (0-indexed, failed attempts counted) submits
\* samples[i mod N]; the payloads of attempts i and i+N are the same.
C3_RoundRobin ==
    LET N == Len(fhir_samples)
    IN  /\ \A i \in 0..(Len(sent) - 1) : sent[i + 1] = fhir_samples[(i % N) + 1]
        /\ \A i \in 0..(Len(sent) - 1) :
              i + N < Len(sent) => sent[i + 1] = sent[i + N + 1]
        /\ pc = "send" => fhir_resource = fhir_samples[(Len(sent) % N) + 1]

\* two different samples, a failed send among the attempts, and the cursor
\* has wrapped
C3_Witness ==
    /\ Len(fhir_samples) = 2
    /\ fhir_samples[1] # fhir_samples[2]
    /\ Len(sent) >= 3
    /\ failed >= 1

\* C4: the connection is closed exactly once on every path out of the send
\* loop (interrupt, or an exception leaving the loop), and nothing is
\* submitted after the close.
C4_ClosedOnce ==
    /\ [](/\ close_calls <= 1
          /\ (producer = "closed") <=> (close_calls = 1)
          /\ (pc = "done" /\ EnteredTry) => close_calls = 1
          /\ close_calls = 1 => pc = "done")
    /\ [][producer = "closed" => sent' = sent]_vars

\* an exception has left the loop after a send, and the connection is closed
C4_Witness ==
    /\ pc = "done"
    /\ exc = "ValueError"
    /\ Len(sent) >= 1
    /\ close_calls = 1

\* C5: only the failure of all 10 connection attempts ends the process with
\* an error; once the connection is established nothing raised in the steady
\* state does.
C5_OnlyConnectFailureFatal ==
    pc = "done" =>
        /\ exc \notin {"none", "KeyboardInterrupt"} => /\ exc = "ConnectionError"
                                                       /\ failures = 10
        /\ producer # "none" => exc \in {"none", "KeyboardInterrupt"}

\* the serialized built-in payloads
PatientText == << "{", "Patient", "example-patient-1", "}" >>
ObservationText == << "{", "Observation", "example-observation-1", "}" >>

\* C6: when the loader returned nothing, the sample set of the loop is the
\* built-in Patient then Observation and the first two sends publish them in
\* that order; when it returned at least one payload, the sample set is the
\* loaded sequence and holds no built-in payload.
C6_Fallback ==
    EnteredTry =>
        IF samples = << >>
        THEN /\ fhir_samples = << PatientText, ObservationText >>
             /\ Len(sent) >= 1 => sent[1] = PatientText
             /\ Len(sent) >= 2 => sent[2] = ObservationText
        ELSE /\ fhir_samples = samples
             /\ \A i \in 1..Len(fhir_samples) :
                   fhir_samples[i] \notin {PatientText, ObservationText}

\* the directory exists but gave no valid file, and two sends were made
C6_Witness ==
    /\ dir_exists
    /\ samples = << >>
    /\ Len(sent) = 2

\* a text that is not empty and is a JSON value of the alphabet (a number)
ValidJsonText(t) == t # << >> /\ \A i \in 1..Len(t) : t[i] \in {"1", "2"}

\* a file whose trimmed content is non-empty and parses as JSON
ValidFile(f) == f.readable /\ ValidJsonText(Strip(f.text))

\* the trimmed contents of the valid files, in listing order
ExpectedSamples(fs) ==
    LET v == SelectSeq(fs, ValidFile)
    IN  [i \in 1..Len(v) |-> Strip(v[i].text)]

\* C7: load_fhir_samples returns one entry per file whose trimmed content is
\* non-empty and parses, and none for any other file; an empty, unreadable or
\* malformed file does not keep a valid file listed before or after it from
\* being loaded.
C7_LoadsValidFiles ==
    /\ pc = "load_file" => samples = ExpectedSamples(SubSeq(files, 1, file_idx - 1))
    /\ pc = "load_return" =>
          /\ samples = ExpectedSamples(files)
          /\ Len(samples) = Cardinality({i \in 1..Len(files) : ValidFile(files[i])})

\* an unreadable file is listed first, then a valid one, and the valid one
\* is the result
C7_Witness ==
    /\ pc = "load_return"
    /\ Len(files) = 2
    /\ ~files[1].readable
    /\ files[2].readable
    /\ files[2].text = << " ", "2", " " >>
    /\ samples = << << "2" >> >>

\* C8: whatever the outcome of a send attempt, one sleep of send_interval
\* seconds separates it from the next attempt; the cursor advances by one per
\* attempt, failed or not, and the next attempt takes the next payload.
C8_SleepEveryAttempt ==
    /\ \A i \in 1..Len(loop_sleeps) : loop_sleeps[i] = send_interval
    /\ pc \in {"loop", "send"} => Len(loop_sleeps) = Len(sent)
    /\ pc = "sleep" => Len(loop_sleeps) = Len(sent) - 1
    /\ Len(loop_sleeps) \in {Len(sent) - 1, Len(sent)}
    /\ sample_index =
          Len(sent) + (IF pc = "send" \/ interrupted_at = "send" THEN 1 ELSE 0)
    /\ \A i \in 1..Len(sent) :
          sent[i] = fhir_samples[((i - 1) % Len(fhir_samples)) + 1]

\* the third attempt is about to be made after two failed ones, each
\* followed by its sleep
C8_Witness ==
    /\ pc = "send"
    /\ acked = 0
    /\ failed = 2
    /\ log["send_failed"] = 1
    /\ log["send_unexpected"] = 1
    /\ loop_sleeps = << 10, 10 >>
    /\ sample_index = 3

\* C9: an interrupt is the only way the send loop ends; after it the
\* connection is closed, the shutdown is logged and the exit code is 0.
C9_InterruptOnlyExit ==
    /\ (EnteredTry /\ pc \in {"except_interrupt", "finally", "done"})
          => interrupted_at \in InTry
    /\ (pc = "done" /\ interrupted_at \in InTry)
          => /\ close_calls = 1
             /\ log["stopping"] = 1
             /\ log["stopped"] = 1
             /\ ExitCode = 0

\* C10: every send attempt logs exactly one outcome line, the success line
\* when it is acknowledged and an error line when it fails, and no failed
\* send leaves the loop: control goes on to the sleep of line 179.
C10_OneOutcomeLine ==
    /\ log["sent"] = acked
    /\ log["send_failed"] + log["send_unexpected"] = failed
    /\ acked + failed = Len(sent)
    /\ (EnteredTry /\ pc = "sleep") => /\ exc = "none"
                                       /\ Len(sent) = sample_index
    /\ (EnteredTry /\ exc # "none") => exc = "ValueError"

\* an acknowledged send, a KafkaError and another error, and the loop is at
\* its next iteration
C10_Witness ==
    /\ pc = "loop"
    /\ acked = 1
    /\ log["send_failed"] = 1
    /\ log["send_unexpected"] = 1

\* C11: load_fhir_samples raises no error to its caller, whatever the
\* problem of the filesystem: once the connection is established and no
\* interrupt is delivered, the call of line 145 returns and main goes on.
C11_LoaderNeverRaises ==
    /\ exc # "OSError"
    /\ (pc = "done" /\ producer # "none" /\ interrupted_at = "none") => EnteredTry

\* C12: once the connection is established and while no interrupt is
\* delivered, the send loop goes on forever (every payload is submitted again
\* and again): without an interrupt the loop is never left.
C12_LoopNeverStops ==
    (EnteredTry /\ interrupted_at = "none") => pc \in InTry

\* C13: in the send loop the sample set is never empty and never changes, the
\* empty-sample branch (warn, sleep, cursor kept) is never taken, and every
\* iteration selects a payload and increments the cursor.
C13_SamplesFixedNonEmpty ==
    /\ [](EnteredTry => /\ fhir_samples # << >>
                        /\ log["no_samples"] = 0)
    /\ [][EnteredTry => fhir_samples' = fhir_samples]_vars
    /\ [][(pc = "loop" /\ pc' # "except_interrupt")
             => /\ pc' = "send"
                /\ sample_index' = sample_index + 1
                /\ fhir_resource' \in {fhir_samples[i] : i \in 1..Len(fhir_samples)}]_vars

\* the loader found the directory but no valid file, and the loop is at the
\* head of its third iteration
C13_Witness ==
    /\ pc = "loop"
    /\ dir_exists
    /\ samples = << >>
    /\ sample_index = 2

\* C14: nothing is submitted and no sample is loaded before a connection
\* attempt has succeeded; when all 10 attempts fail the process ends with no
\* send, no sample load and no close.
C14_NothingBeforeConnection ==
    /\ producer = "none" =>
          /\ pc \in {"connect", "retry_wait", "done"}
          /\ sent = << >>
          /\ files = << >> /\ samples = << >> /\ fhir_samples = << >>
          /\ ~dir_exists
          /\ \A l \in LogLines \ {"attempt_failed"} : log[l] = 0
          /\ close_calls = 0
    /\ failures = 10 =>
          /\ pc = "done"
          /\ producer = "none"
          /\ exc = "ConnectionError"

\* all 10 attempts have failed and the process has ended
C14_Witness ==
    /\ failures = 10
    /\ pc = "done"
    /\ sent = << >>
    /\ close_calls = 0

\* C15: an interrupt delivered during a connection attempt or during the
\* wait between two attempts is not counted or logged as a failed attempt
\* and is not retried: create_producer ends at once, the send loop is never
\* entered and nothing is sent.
C15_InterruptNotRetried ==
    interrupted_at \in {"connect", "retry_wait"} =>
        /\ pc = "done"
        /\ exc = "KeyboardInterrupt"
        /\ producer = "none"
        /\ attempts = failures
        /\ log["attempt_failed"] = failures
        /\ attempt = Len(retry_delays)
        /\ failures = attempt + (IF interrupted_at = "retry_wait" THEN 1 ELSE 0)
        /\ ~EnteredTry
        /\ sent = << >>

\* three attempts have failed and the interrupt arrives during the third wait
C15_Witness ==
    /\ interrupted_at = "retry_wait"
    /\ failures = 3
    /\ Len(retry_delays) = 2
    /\ pc = "done"

====
